---- MODULE Spec2Model ----
(***************************************************************************)
(* Model of src/main.py: the Tierlist container, the TierlistManager state *)
(* machine (begin/end/add/remove) and the TierlistRenderer.render          *)
(* pipeline (concurrent avatar fetch, barrier, draw on a worker thread).   *)
(***************************************************************************)
EXTENDS Integers, Sequences, FiniteSets, TLC

VARIABLES
    python,            \* the interpreter's Enum.__contains__ semantics (fixed per process)
    tierlists,         \* TierlistManager.tierlists : name -> Tierlist.tiers
    currently_active,  \* TierlistManager.currently_active : name or None
    call,              \* the manager call made last (operation and arguments)
    result,            \* what that call returned, or the exception it raised
    ncalls,            \* how many manager calls have been made
    font,              \* TierlistRenderer.__init__: which fonts got loaded (None: no renderer)
    show_pc,           \* where the show handler and its render are
    show_error,        \* the exception that ended the show handler, or None
    render_of,         \* the Tierlist object handed to render (by its name), or None
    invoked,           \* that tierlist's tiers at the instant render was invoked
    tasks,             \* render's fetch tasks, in creation order
    avatar_images,     \* the uids that are keys of avatar_images
    tier_heights,      \* _draw: the heights computed so far, in tier order
    current_y,         \* _draw: the running offset
    ti,                \* _draw: index in TierOrder of the tier being drawn
    it,                \* _draw: the iterator over that tier's members
    placed             \* _draw: what has been drawn for members, in order

mgr == <<python, tierlists, currently_active, call, result, ncalls>>

shw == <<font, show_pc, show_error, render_of, invoked, tasks, avatar_images,
         tier_heights, current_y, ti, it, placed>>

vars == <<mgr, shw>>

\* ------------------------------------------------------------------ bounds

\* member ids are 1..MaxId
MaxId == 2

\* manager calls made in one run of Spec
MaxCalls == 5

\* ------------------------------------------------------------------ inputs

None == "None"

Ids == 1..MaxId

\* list names; the empty string is a legal name
Names == {"", "test"}

\* Member(name, avatar_url) values handed to add
Members == {"m"}

\* ------------------------------------------------------------------ Tier

\* class Tier(Enum): the declaration order is the iteration order
TierOrder == <<"S", "A", "B", "C", "D", "F">>

Tier == {TierOrder[i] : i \in 1..Len(TierOrder)}

\* tier arguments that are no member of Tier:
\*   RawValue      a plain int that equals a member's value (0 is Tier.S.value)
\*   NonValue      a plain object that equals no member's value ("X", 7, None)
\*   ForeignMember a member of some other Enum class
RawValue == "0"
NonValue == "X"
ForeignMember == "Other.X"

InvalidTiers == {RawValue, NonValue, ForeignMember}

TierArgs == Tier \cup InvalidTiers

\* `target_tier in Tier` (EnumType.__contains__): "True", "False" or "TypeError".
\* Up to Python 3.11 a non-Enum operand raises TypeError; from 3.12 on it is
\* True for a member or the value of a member and False otherwise.
PythonVersions == {"3.11", "3.12"}

InTier(t, py) ==
    IF t \in Tier THEN "True"
    ELSE IF t = ForeignMember THEN "False"
    ELSE IF py = "3.11" THEN "TypeError"
    ELSE IF t = RawValue THEN "True"
    ELSE "False"

\* ------------------------------------------------------------------ dict

\* A dict is kept with its insertion order: a sequence of <<key, value>> pairs.
Keys(d) == {d[i][1] : i \in 1..Len(d)}

Has(d, k) == \E i \in 1..Len(d) : d[i][1] = k

\* del d[k]
Del(d, k) == SelectSeq(d, LAMBDA e : e[1] # k)

\* d[k] = v : an existing key keeps its position, a new key goes last
Put(d, k, v) ==
    IF Has(d, k)
    THEN [i \in 1..Len(d) |-> IF d[i][1] = k THEN <<k, v>> ELSE d[i]]
    ELSE Append(d, <<k, v>>)

\* ------------------------------------------------------------------ Tierlist

\* Tierlist.__init__
NewTierlist == [t \in Tier |-> <<>>]

\* the first tier, in iteration order, whose dict holds _id (0 when none does)
RECURSIVE FirstTierFrom(_, _, _)
FirstTierFrom(tiers, id, i) ==
    IF i > Len(TierOrder) THEN 0
    ELSE IF Has(tiers[TierOrder[i]], id) THEN i
    ELSE FirstTierFrom(tiers, id, i + 1)

FirstTier(tiers, id) == FirstTierFrom(tiers, id, 1)

\* the name of that tier, or None
FoundIn(tiers, id) ==
    IF FirstTier(tiers, id) = 0 THEN None ELSE TierOrder[FirstTier(tiers, id)]

\* a loop that finds _id and leaves it where it is
DelFirst_keep(tiers, id) == tiers

\* the loop of add_member and remove_member: delete _id from the first tier
\* that holds it, then stop
DelFirst(tiers, id) ==
    LET i == FirstTier(tiers, id) IN
    IF i = 0 THEN tiers
    ELSE [tiers EXCEPT ![TierOrder[i]] = Del(@, id)]

\* d[k]
Lookup(d, k) == d[CHOOSE i \in 1..Len(d) : d[i][1] = k][2]

\* an add_member that assigns in place when _id is in the target tier already
add_member_in_place(tiers, id, data, target_tier, py) ==
    LET member == InTier(target_tier, py) IN
    IF member = "TypeError" THEN [tiers |-> tiers, ret |-> "TypeError"]
    ELSE IF member = "False" THEN [tiers |-> tiers, ret |-> "False"]
    ELSE LET removed == IF target_tier \in DOMAIN tiers /\ Has(tiers[target_tier], id)
                        THEN tiers
                        ELSE DelFirst(tiers, id) IN
         IF target_tier \in DOMAIN removed
         THEN [tiers |-> [removed EXCEPT ![target_tier] = Put(@, id, data)],
               ret |-> "True"]
         ELSE [tiers |-> removed, ret |-> "KeyError"]

\* Tierlist.add_member: the tiers afterwards and what the call returns or raises
add_member(tiers, id, data, target_tier, py) ==
    LET member == InTier(target_tier, py) IN
    IF member = "TypeError" THEN [tiers |-> tiers, ret |-> "TypeError"]
    ELSE IF member = "False" THEN [tiers |-> tiers, ret |-> "False"]
    ELSE LET removed == DelFirst(tiers, id) IN
         IF target_tier \in DOMAIN removed
         THEN [tiers |-> [removed EXCEPT ![target_tier] = Put(@, id, data)],
               ret |-> "True"]
         ELSE [tiers |-> removed, ret |-> "KeyError"]

\* a remove_member that reports success whether or not it found _id
remove_member_always(tiers, id) ==
    [tiers |-> DelFirst(tiers, id), ret |-> "True"]

\* Tierlist.remove_member
remove_member(tiers, id) ==
    IF FirstTier(tiers, id) = 0
    THEN [tiers |-> tiers, ret |-> "False"]
    ELSE [tiers |-> DelFirst(tiers, id), ret |-> "True"]

\* ------------------------------------------------------------------ TierlistError

TierlistError ==
    {"SUCCESS", "USER_NOT_FOUND", "INVALID_TIER",
     "TIERLIST_NOT_ACTIVE", "TIERLIST_ALREADY_ACTIVE"}

Exceptions == {"TypeError", "KeyError"}

\* ------------------------------------------------------------------ TierlistManager

\* no iterator over a tier's members exists
NoIter == [live |-> FALSE]

\* no show command has been issued
ShowIdle ==
    /\ show_pc = "idle"
    /\ show_error = None
    /\ render_of = None
    /\ invoked = None
    /\ tasks = <<>>
    /\ avatar_images = {}
    /\ tier_heights = <<>>
    /\ current_y = 0
    /\ ti = 0
    /\ it = NoIter
    /\ placed = <<>>

\* TierlistManager.__init__
Init ==
    /\ python \in PythonVersions
    /\ tierlists = <<>>
    /\ currently_active = None
    /\ call = [op |-> "init"]
    /\ result = None
    /\ ncalls = 0
    /\ font = None
    /\ ShowIdle

\* a begin_tierlist that rejects only the name that is already active
begin_tierlist_same(name) ==
    /\ call' = [op |-> "begin", name |-> name]
    /\ IF currently_active = name
       THEN /\ result' = "TIERLIST_ALREADY_ACTIVE"
            /\ UNCHANGED <<tierlists, currently_active>>
       ELSE IF name \in DOMAIN tierlists
       THEN /\ currently_active' = name
            /\ result' = "SUCCESS"
            /\ UNCHANGED tierlists
       ELSE /\ tierlists' = (name :> NewTierlist) @@ tierlists
            /\ currently_active' = name
            /\ result' = "SUCCESS"
    /\ UNCHANGED python

\* a begin_tierlist that always starts from a fresh Tierlist
begin_tierlist_fresh(name) ==
    /\ call' = [op |-> "begin", name |-> name]
    /\ IF currently_active # None
       THEN /\ result' = "TIERLIST_ALREADY_ACTIVE"
            /\ UNCHANGED <<tierlists, currently_active>>
       ELSE /\ tierlists' = (name :> NewTierlist) @@ tierlists
            /\ currently_active' = name
            /\ result' = "SUCCESS"
    /\ UNCHANGED python

begin_tierlist(name) ==
    /\ call' = [op |-> "begin", name |-> name]
    /\ IF currently_active # None
       THEN /\ result' = "TIERLIST_ALREADY_ACTIVE"
            /\ UNCHANGED <<tierlists, currently_active>>
       ELSE IF name \in DOMAIN tierlists
       THEN /\ currently_active' = name
            /\ result' = "SUCCESS"
            /\ UNCHANGED tierlists
       ELSE /\ tierlists' = (name :> NewTierlist) @@ tierlists
            /\ currently_active' = name
            /\ result' = "SUCCESS"
    /\ UNCHANGED python

\* an end_tierlist that discards the list it ends
end_tierlist_discard ==
    /\ call' = [op |-> "end"]
    /\ IF currently_active # None
       THEN /\ currently_active' = None
            /\ tierlists' = [n \in DOMAIN tierlists \ {currently_active} |->
                                tierlists[n]]
            /\ result' = "SUCCESS"
       ELSE /\ result' = "TIERLIST_NOT_ACTIVE"
            /\ UNCHANGED <<currently_active, tierlists>>
    /\ UNCHANGED python

end_tierlist ==
    /\ call' = [op |-> "end"]
    /\ IF currently_active # None
       THEN /\ currently_active' = None
            /\ result' = "SUCCESS"
       ELSE /\ result' = "TIERLIST_NOT_ACTIVE"
            /\ UNCHANGED currently_active
    /\ UNCHANGED <<python, tierlists>>

\* an add_to_tierlist that validates the tier before it looks at the active list
add_to_tierlist_tier_first(id, data, target_tier) ==
    /\ call' = [op |-> "add", id |-> id, data |-> data, tier |-> target_tier,
                found |-> IF currently_active = None THEN None
                          ELSE FoundIn(tierlists[currently_active], id)]
    /\ IF InTier(target_tier, python) = "False"
       THEN /\ result' = "INVALID_TIER"
            /\ UNCHANGED tierlists
       ELSE IF currently_active = None
       THEN /\ result' = "TIERLIST_NOT_ACTIVE"
            /\ UNCHANGED tierlists
       ELSE LET r == add_member(tierlists[currently_active], id, data,
                                target_tier, python) IN
            /\ tierlists' = [tierlists EXCEPT ![currently_active] = r.tiers]
            /\ result' = CASE r.ret = "True" -> "SUCCESS"
                           [] r.ret = "False" -> "INVALID_TIER"
                           [] OTHER -> r.ret
    /\ UNCHANGED <<python, currently_active>>

add_to_tierlist(id, data, target_tier) ==
    /\ call' = [op |-> "add", id |-> id, data |-> data, tier |-> target_tier,
                found |-> IF currently_active = None THEN None
                          ELSE FoundIn(tierlists[currently_active], id)]
    /\ IF currently_active = None
       THEN /\ result' = "TIERLIST_NOT_ACTIVE"
            /\ UNCHANGED tierlists
       ELSE LET r == add_member(tierlists[currently_active], id, data,
                                target_tier, python) IN
            /\ tierlists' = [tierlists EXCEPT ![currently_active] = r.tiers]
            /\ result' = CASE r.ret = "True" -> "SUCCESS"
                           [] r.ret = "False" -> "INVALID_TIER"
                           [] OTHER -> r.ret
    /\ UNCHANGED <<python, currently_active>>

\* a remove_from_tierlist that searches every stored list
remove_from_tierlist_all(id) ==
    /\ call' = [op |-> "remove", id |-> id,
                found |-> IF currently_active = None THEN None
                          ELSE FoundIn(tierlists[currently_active], id)]
    /\ IF currently_active = None
       THEN /\ result' = "TIERLIST_NOT_ACTIVE"
            /\ UNCHANGED tierlists
       ELSE LET r == remove_member(tierlists[currently_active], id) IN
            /\ tierlists' = [n \in DOMAIN tierlists |->
                                remove_member(tierlists[n], id).tiers]
            /\ result' = IF r.ret = "True" THEN "SUCCESS" ELSE "USER_NOT_FOUND"
    /\ UNCHANGED <<python, currently_active>>

remove_from_tierlist(id) ==
    /\ call' = [op |-> "remove", id |-> id,
                found |-> IF currently_active = None THEN None
                          ELSE FoundIn(tierlists[currently_active], id)]
    /\ IF currently_active = None
       THEN /\ result' = "TIERLIST_NOT_ACTIVE"
            /\ UNCHANGED tierlists
       ELSE LET r == remove_member(tierlists[currently_active], id) IN
            /\ tierlists' = [tierlists EXCEPT ![currently_active] = r.tiers]
            /\ result' = IF r.ret = "True" THEN "SUCCESS" ELSE "USER_NOT_FOUND"
    /\ UNCHANGED <<python, currently_active>>

\* one more manager call, while the run's budget lasts
Called(max) == ncalls < max /\ ncalls' = ncalls + 1

Begin ==
    /\ Called(MaxCalls)
    /\ \E name \in Names : begin_tierlist(name)
    /\ UNCHANGED shw

End == Called(MaxCalls) /\ end_tierlist /\ UNCHANGED shw

Add ==
    /\ Called(MaxCalls)
    /\ \E id \in Ids, data \in Members, t \in TierArgs : add_to_tierlist(id, data, t)
    /\ UNCHANGED shw

Remove ==
    /\ Called(MaxCalls)
    /\ \E id \in Ids : remove_from_tierlist(id)
    /\ UNCHANGED shw

Next == Begin \/ End \/ Add \/ Remove

Spec == Init /\ [][Next]_vars

\* ------------------------------------------------------------------ TierlistRenderer

\* TierlistRenderer.__init__: the geometry
total_width == 1000
avatar_size == 100
padding == 10
text_height == 20
min_tier_height == 100

\* int(self.total_width * 0.15)
label_width == (total_width * 15) \div 100

content_width == total_width - label_width

\* TierlistRenderer.__init__: the fonts. With arial.ttf present the attributes
\* set are font_label and font_names; on IOError they are font_label and font_name.
Fonts == {"truetype", "default"}

HasFontName(f) == f = "default"

unit_width == avatar_size + padding

unit_height == avatar_size + text_height + padding

avatars_per_row ==
    IF content_width \div unit_width < 1 THEN 1 ELSE content_width \div unit_width

\* math.ceil(a / b) for a >= 0 and b > 0
Ceil(a, b) == (a + b - 1) \div b

\* a height computed from the full rows only
calc_tier_height_floor(num_members) ==
    IF num_members = 0 THEN min_tier_height + (padding * 2)
    ELSE ((num_members \div avatars_per_row) * unit_height) + padding

\* TierlistRenderer._calc_tier_height
calc_tier_height(num_members) ==
    IF num_members = 0 THEN min_tier_height + (padding * 2)
    ELSE (Ceil(num_members, avatars_per_row) * unit_height) + padding

RECURSIVE Sum(_)
Sum(seq) == IF seq = <<>> THEN 0 ELSE seq[1] + Sum(Tail(seq))

\* ------------------------------------------------------------------ render: fetch

\* what the network does to one session.get: status 200 with a body, another
\* status, or an exception (connection error, timeout, failed read)
FetchOutcomes == {"200", "status", "raise"}

\* a _download that lets the exception of session.get escape
download_no_except(outcome) ==
    CASE outcome = "200" -> "BytesIO"
      [] outcome = "status" -> None
      [] OTHER -> "raised"

\* TierlistRenderer._download: the data of the pair it returns
download(outcome) ==
    CASE outcome = "200" -> "BytesIO"
      [] outcome = "status" -> None
      [] OTHER -> None

\* `if data:` a BytesIO is truthy whatever it holds, None is not
Truthy(data) == data = "BytesIO"

\* the tasks render creates: one per member, tiers in order, members in
\* insertion order
RECURSIVE TasksFrom(_, _)
TasksFrom(tiers, i) ==
    IF i > Len(TierOrder) THEN <<>>
    ELSE [j \in 1..Len(tiers[TierOrder[i]]) |->
             [uid |-> tiers[TierOrder[i]][j][1],
              url |-> tiers[TierOrder[i]][j][2],
              outcome |-> "pending",
              data |-> "pending"]]
         \o TasksFrom(tiers, i + 1)

\* `not manager.currently_active`
Falsy(x) == x = None \/ x = ""

\* ------------------------------------------------------------------ show

\* show: the check of the active list, then the reply or the awaited defer
ShowCheck ==
    /\ show_pc = "idle"
    /\ show_pc' = IF Falsy(currently_active) THEN "no_active" ELSE "deferred"
    /\ UNCHANGED <<mgr, font, show_error, render_of, invoked, tasks,
                   avatar_images, tier_heights, current_y, ti, it, placed>>

\* show after the defer: the lookup of the active list, and render up to its
\* first await (the tasks are created from the tierlist as it is now)
ShowLookup ==
    /\ show_pc = "deferred"
    /\ IF currently_active \in DOMAIN tierlists
       THEN /\ render_of' = currently_active
            /\ invoked' = tierlists[currently_active]
            /\ tasks' = TasksFrom(tierlists[currently_active], 1)
            /\ show_pc' = "fetching"
            /\ UNCHANGED show_error
       ELSE /\ show_pc' = "error"
            /\ show_error' = "KeyError"
            /\ UNCHANGED <<render_of, invoked, tasks>>
    /\ UNCHANGED <<mgr, font, avatar_images, tier_heights, current_y, ti, it, placed>>

\* one fetch task runs to its end
Download ==
    /\ show_pc = "fetching"
    /\ \E i \in 1..Len(tasks), outcome \in FetchOutcomes :
          /\ tasks[i].data = "pending"
          /\ tasks' = [tasks EXCEPT ![i].outcome = outcome,
                                    ![i].data = download(outcome)]
    /\ UNCHANGED <<mgr, font, show_pc, show_error, render_of, invoked,
                   avatar_images, tier_heights, current_y, ti, it, placed>>

\* a render that goes on as soon as one task has returned, as with
\* asyncio.wait(tasks, return_when=FIRST_COMPLETED)
Gather_first_completed ==
    /\ show_pc = "fetching"
    /\ IF \E i \in 1..Len(tasks) : tasks[i].data = "raised"
       THEN /\ show_pc' = "error"
            /\ show_error' = "ClientError"
            /\ UNCHANGED avatar_images
       ELSE /\ tasks # <<>> => \E i \in 1..Len(tasks) : tasks[i].data # "pending"
            /\ avatar_images' = {tasks[i].uid : i \in {j \in 1..Len(tasks) : Truthy(tasks[j].data)}}
            /\ show_pc' = "heights"
            /\ UNCHANGED show_error
    /\ UNCHANGED <<mgr, font, render_of, invoked, tasks, tier_heights,
                   current_y, ti, it, placed>>

\* render: `await asyncio.gather(*tasks)` returns once every task has returned,
\* or raises as soon as one has raised; then avatar_images is filled and _draw
\* is handed to a worker thread
Gather ==
    /\ show_pc = "fetching"
    /\ IF \E i \in 1..Len(tasks) : tasks[i].data = "raised"
       THEN /\ show_pc' = "error"
            /\ show_error' = "ClientError"
            /\ UNCHANGED avatar_images
       ELSE /\ \A i \in 1..Len(tasks) : tasks[i].data # "pending"
            /\ avatar_images' = {tasks[i].uid : i \in {j \in 1..Len(tasks) : Truthy(tasks[j].data)}}
            /\ show_pc' = "heights"
            /\ UNCHANGED show_error
    /\ UNCHANGED <<mgr, font, render_of, invoked, tasks, tier_heights,
                   current_y, ti, it, placed>>

\* ------------------------------------------------------------------ _draw

\* the dict of the tier at index i of the tierlist being drawn, as it is now
Drawn(i) == tierlists[render_of][TierOrder[i]]

\* _draw: total_canvas_height, the sum of the heights computed
total_canvas_height == Sum(tier_heights)

\* _draw, first loop: the height of the next tier from the length its dict has
\* now; after the last one the canvas is created
DrawHeight ==
    /\ show_pc = "heights"
    /\ LET k == Len(tier_heights) + 1 IN
         /\ tier_heights' = Append(tier_heights, calc_tier_height(Len(Drawn(k))))
         /\ IF k = Len(TierOrder)
            THEN show_pc' = "drawing" /\ ti' = 1 /\ current_y' = 0
            ELSE UNCHANGED <<show_pc, ti, current_y>>
    /\ UNCHANGED <<mgr, font, show_error, render_of, invoked, tasks,
                   avatar_images, it, placed>>

\* _draw, second loop: the label box of the tier, and the iterator
\* members.items(), which remembers the dict's size. `dirty` stands for the
\* dict's entry table having been changed under the iterator.
DrawTierBegin ==
    /\ show_pc = "drawing"
    /\ ~it.live
    /\ it' = [live |-> TRUE, used |-> Len(Drawn(ti)), pos |-> 0, dirty |-> FALSE]
    /\ UNCHANGED <<mgr, font, show_pc, show_error, render_of, invoked, tasks,
                   avatar_images, tier_heights, current_y, ti, placed>>

\* what the next step of the iterator finds
IterState ==
    IF Len(Drawn(ti)) # it.used THEN "changed_size"
    ELSE IF it.dirty THEN "changed_keys"
    ELSE IF it.pos < Len(Drawn(ti)) THEN "more"
    ELSE "end"

\* the iterator raises RuntimeError: the dict changed size during iteration,
\* or its keys changed
DrawRaise ==
    /\ show_pc = "drawing"
    /\ it.live
    /\ IterState \in {"changed_size", "changed_keys"}
    /\ show_pc' = "error"
    /\ show_error' = "RuntimeError"
    /\ UNCHANGED <<mgr, font, render_of, invoked, tasks, avatar_images,
                   tier_heights, current_y, ti, it, placed>>

\* a grid with one column more than the content area holds
Cell_wide(index, y) ==
    [x |-> (label_width + padding) + ((index % (avatars_per_row + 1)) * unit_width),
     y |-> (y + padding) + ((index \div (avatars_per_row + 1)) * unit_height)]

\* the grid cell of the member at `index` of the tier whose band starts at y
Cell(index, y) ==
    [x |-> (label_width + padding) + ((index % avatars_per_row) * unit_width),
     y |-> (y + padding) + ((index \div avatars_per_row) * unit_height)]

\* a member loop that numbers only the members it draws
DrawEntry_count_drawn(index, entry) ==
    LET drawn == Len(SelectSeq(placed, LAMBDA e : e.tier = TierOrder[ti])) IN
    IF entry[1] \in avatar_images
    THEN \E decode \in {"ok", "fail"} :
            IF HasFontName(font)
            THEN /\ placed' = Append(placed,
                        [tier |-> TierOrder[ti], uid |-> entry[1], index |-> drawn,
                         x |-> Cell(drawn, current_y).x,
                         y |-> Cell(drawn, current_y).y,
                         avatar |-> decode = "ok", label |-> TRUE])
                 /\ UNCHANGED <<show_pc, show_error>>
            ELSE /\ show_pc' = "error"
                 /\ show_error' = "AttributeError"
                 /\ UNCHANGED placed
    ELSE UNCHANGED <<placed, show_pc, show_error>>

\* the body of the member loop for the entry the iterator yields
DrawEntry(index, entry) ==
    IF entry[1] \in avatar_images
    THEN \E decode \in {"ok", "fail"} :
            IF HasFontName(font)
            THEN /\ placed' = Append(placed,
                        [tier |-> TierOrder[ti], uid |-> entry[1], index |-> index,
                         x |-> Cell(index, current_y).x,
                         y |-> Cell(index, current_y).y,
                         avatar |-> decode = "ok", label |-> TRUE])
                 /\ UNCHANGED <<show_pc, show_error>>
            ELSE /\ show_pc' = "error"
                 /\ show_error' = "AttributeError"
                 /\ UNCHANGED placed
    ELSE UNCHANGED <<placed, show_pc, show_error>>

\* _draw, member loop: the iterator yields the next entry; after a change of
\* the entry table that kept the size, which entry it yields is not determined
DrawMember ==
    /\ show_pc = "drawing"
    /\ it.live
    /\ \/ /\ IterState = "more"
          /\ DrawEntry(it.pos, Drawn(ti)[it.pos + 1])
       \/ /\ IterState = "changed_keys"
          /\ it.pos < it.used
          /\ \E j \in 1..Len(Drawn(ti)) : DrawEntry(it.pos, Drawn(ti)[j])
    /\ it' = [it EXCEPT !.pos = @ + 1]
    /\ UNCHANGED <<mgr, font, render_of, invoked, tasks, avatar_images,
                   tier_heights, current_y, ti>>

\* a _draw whose offset advances by the height of an empty band
DrawTierEnd_fixed_step ==
    /\ show_pc = "drawing"
    /\ it.live
    /\ IterState \in {"end", "changed_keys"}
    /\ current_y' = current_y + calc_tier_height(0)
    /\ it' = NoIter
    /\ IF ti = Len(TierOrder)
       THEN show_pc' = "sent" /\ UNCHANGED ti
       ELSE ti' = ti + 1 /\ UNCHANGED show_pc
    /\ UNCHANGED <<mgr, font, show_error, render_of, invoked, tasks,
                   avatar_images, tier_heights, placed>>

\* _draw: the iterator is exhausted; the separator is drawn and the offset
\* advances; after the last tier the canvas is saved and show sends the file
DrawTierEnd ==
    /\ show_pc = "drawing"
    /\ it.live
    /\ IterState \in {"end", "changed_keys"}
    /\ current_y' = current_y + tier_heights[ti]
    /\ it' = NoIter
    /\ IF ti = Len(TierOrder)
       THEN show_pc' = "sent" /\ UNCHANGED ti
       ELSE ti' = ti + 1 /\ UNCHANGED show_pc
    /\ UNCHANGED <<mgr, font, show_error, render_of, invoked, tasks,
                   avatar_images, tier_heights, placed>>

ShowStep ==
    \/ ShowCheck
    \/ ShowLookup
    \/ Download
    \/ Gather
    \/ DrawHeight
    \/ DrawTierBegin
    \/ DrawRaise
    \/ DrawMember
    \/ DrawTierEnd

\* ------------------------------------------------------------------ the bot

\* the tiers the add command is given in the runs with a show
CmdTiers == {"S", "F"}

\* the manager call just made deleted a key from, or inserted a new key into,
\* the dict of tier t of the active list
ChangesDict(t) ==
    \/ /\ call'.op = "add"
       /\ \/ result' \in {"SUCCESS", "KeyError"} /\ call'.found = t
          \/ result' = "SUCCESS" /\ call'.tier = t
    \/ /\ call'.op = "remove"
       /\ result' = "SUCCESS" /\ call'.found = t

\* the event loop can run another handler: show has not started or is over,
\* it is suspended in an await (gather of no task completes without
\* suspending), or _draw is running on the worker thread
CanInterleave == ~(show_pc = "fetching" /\ tasks = <<>>)

\* a command handler (begin, end, add, remove) runs while the show handler is
\* where it is; its manager call is made before the handler's first await. The
\* call is one step: what _draw can see between the del and the insertion of
\* an add is what it sees between a remove and an add.
Command(max) ==
    /\ Called(max)
    /\ CanInterleave
    /\ \/ \E name \in Names : begin_tierlist(name)
       \/ end_tierlist
       \/ \E id \in Ids, data \in Members, t \in CmdTiers : add_to_tierlist(id, data, t)
       \/ \E id \in Ids : remove_from_tierlist(id)
    /\ it' = IF /\ it.live
                /\ currently_active = render_of
                /\ ChangesDict(TierOrder[ti])
             THEN [it EXCEPT !.dirty = TRUE]
             ELSE it
    /\ UNCHANGED <<font, show_pc, show_error, render_of, invoked, tasks,
                   avatar_images, tier_heights, current_y, ti, placed>>

\* the tierlists that at most k add commands make of a new one
RECURSIVE Populated(_)
Populated(k) ==
    IF k = 0 THEN {NewTierlist}
    ELSE Populated(k - 1) \cup
         {add_member(p, id, data, t, "3.12").tiers :
             p \in Populated(k - 1), id \in Ids, data \in Members, t \in CmdTiers}

\* the bot with its manager and renderer constructed: no list yet, or one
\* list begun and populated; no show yet
InitShow ==
    /\ python \in PythonVersions
    /\ font \in Fonts
    /\ \/ tierlists = <<>> /\ currently_active = None
       \/ \E name \in Names, tiers \in Populated(MaxId) :
             tierlists = (name :> tiers) /\ currently_active = name
    /\ call = [op |-> "init"]
    /\ result = None
    /\ ncalls = 0
    /\ ShowIdle

\* command handlers interleaved with one show
MaxCmds == 1

Cmd == Command(MaxCmds)

NextShow == Cmd \/ ShowStep

SpecShow == InitShow /\ [][NextShow]_vars

\* one show with no other handler running: no dict changes under the
\* iterator of _draw, so DrawRaise is never enabled
NextRender ==
    \/ ShowCheck
    \/ ShowLookup
    \/ Download
    \/ Gather
    \/ DrawHeight
    \/ DrawTierBegin
    \/ DrawMember
    \/ DrawTierEnd

SpecRender == InitShow /\ [][NextRender]_vars

\* ------------------------------------------------------------------ one Tierlist

\* the data of two members (name, avatar_url)
Profiles == {"m", "n"}

\* one list has been begun
InitTierlist ==
    /\ python \in PythonVersions
    /\ tierlists = ("test" :> NewTierlist)
    /\ currently_active = "test"
    /\ call = [op |-> "init"]
    /\ result = None
    /\ ncalls = 0
    /\ font = None
    /\ ShowIdle

\* add commands with either member's data
AddProfile ==
    /\ Called(MaxCalls)
    /\ \E id \in Ids, data \in Profiles, t \in CmdTiers : add_to_tierlist(id, data, t)
    /\ UNCHANGED shw

NextTierlist == AddProfile \/ Remove

SpecTierlist == InitTierlist /\ [][NextTierlist]_vars

\* ------------------------------------------------------------------ layout

\* the most members a tier holds in the runs of _draw alone
MaxMembers == 15

\* a tier's dict after add commands for the ids 1..n in turn
TierOf(n) == [i \in 1..n |-> <<i, "m">>]

\* the tasks of a render, each returned: image bytes for the ids of `fetched`,
\* a status other than 200 for the others
TasksDone(tiers, fetched) ==
    [i \in 1..Len(TasksFrom(tiers, 1)) |->
        LET task == TasksFrom(tiers, 1)[i]
            outcome == IF task.uid \in fetched THEN "200" ELSE "status" IN
        [task EXCEPT !.outcome = outcome, !.data = download(outcome)]]

\* _draw is about to run on a worker thread: one list whose tier t holds n
\* members, shown with no other handler running; the fetch tasks have all
\* returned, at most two of them with image bytes
InitLayout ==
    /\ python \in PythonVersions
    /\ font \in Fonts
    /\ \E t \in CmdTiers, n \in 0..MaxMembers :
          \E i, j \in 0..n :
             LET tiers == [NewTierlist EXCEPT ![t] = TierOf(n)] IN
             /\ tierlists = ("test" :> tiers)
             /\ invoked = tiers
             /\ tasks = TasksDone(tiers, {i, j} \ {0})
             /\ avatar_images = {i, j} \ {0}
    /\ currently_active = "test"
    /\ render_of = "test"
    /\ call = [op |-> "init"]
    /\ result = None
    /\ ncalls = 0
    /\ show_pc = "heights"
    /\ show_error = None
    /\ tier_heights = <<>>
    /\ current_y = 0
    /\ ti = 0
    /\ it = NoIter
    /\ placed = <<>>

\* _draw from its first statement to the saved canvas
NextLayout ==
    \/ DrawHeight
    \/ DrawTierBegin
    \/ DrawMember
    \/ DrawTierEnd

SpecLayout == InitLayout /\ [][NextLayout]_vars

\* ------------------------------------------------------------------ reading a state

\* the tiers of `tiers` whose dict holds id
TiersOf(tiers, id) == {t \in Tier : Has(tiers[t], id)}

\* the ids a tierlist holds
MemberIds(tiers) == UNION {Keys(tiers[t]) : t \in Tier}

\* the step is a manager call of one of the operations in ops
IsCall(ops) == ncalls' # ncalls /\ call'.op \in ops

Active == currently_active # None

\* ------------------------------------------------------------------ manager claims

\* C1: in every reachable state every member id is in at most one tier of
\* every stored tierlist (and is a key of that tier's dict once); and right
\* after a successful add(id, ..., T) on the active list, id is in T and in no
\* other tier, wherever it was before.
C1_Unique ==
    /\ \A n \in DOMAIN tierlists : \A id \in Ids :
          /\ Cardinality(TiersOf(tierlists[n], id)) <= 1
          /\ \A t \in Tier :
                Cardinality({i \in 1..Len(tierlists[n][t]) :
                                tierlists[n][t][i][1] = id}) <= 1
    /\ (call.op = "add" /\ result = "SUCCESS") =>
          TiersOf(tierlists[currently_active], call.id) = {call.tier}

\* C1 witness: an id that was in one tier has been added to another
C1_Witness ==
    /\ call.op = "add" /\ result = "SUCCESS"
    /\ call.found \in Tier /\ call.found # call.tier
    /\ TiersOf(tierlists[currently_active], call.id) = {call.tier}

\* C2: begin_tierlist(name) while a list is active, for the active name or
\* any other, returns TIERLIST_ALREADY_ACTIVE, keeps the active name, creates
\* no tierlist and changes no stored tierlist.
C2_BeginWhileActive ==
    [][(IsCall({"begin"}) /\ Active) =>
          /\ result' = "TIERLIST_ALREADY_ACTIVE"
          /\ currently_active' = currently_active
          /\ tierlists' = tierlists]_vars

\* C2 witness: a begin of a name other than the active one, never begun
\* before, was rejected
C2_Witness ==
    /\ call.op = "begin" /\ result = "TIERLIST_ALREADY_ACTIVE"
    /\ Active /\ call.name # currently_active
    /\ call.name \notin DOMAIN tierlists

\* C3: begin_tierlist(name) with no list active returns SUCCESS and makes name
\* active; a name never begun gets a tierlist of six empty tiers, an existing
\* name keeps its tierlist as it is. end_tierlist with a list active returns
\* SUCCESS, leaves no list active and changes no tierlist. No step changes a
\* stored tierlist that is not the active one, so a list is reactivated with
\* the membership it had when it was ended.
C3_BeginFromNoActive ==
    [][/\ (IsCall({"begin"}) /\ ~Active) =>
            /\ result' = "SUCCESS"
            /\ currently_active' = call'.name
            /\ DOMAIN tierlists' = DOMAIN tierlists \cup {call'.name}
            /\ \A n \in DOMAIN tierlists : tierlists'[n] = tierlists[n]
            /\ call'.name \notin DOMAIN tierlists =>
                  /\ DOMAIN tierlists'[call'.name] = Tier
                  /\ \A t \in Tier : tierlists'[call'.name][t] = <<>>
       /\ (IsCall({"end"}) /\ Active) =>
            /\ result' = "SUCCESS"
            /\ currently_active' = None
            /\ tierlists' = tierlists
       /\ \A n \in DOMAIN tierlists :
            n # currently_active =>
               n \in DOMAIN tierlists' /\ tierlists'[n] = tierlists[n]]_vars

\* C3 witness: a begin has just reactivated a list that already has members
C3_Witness ==
    /\ call.op = "begin" /\ result = "SUCCESS"
    /\ currently_active = call.name
    /\ MemberIds(tierlists[currently_active]) # {}

\* C4: with no list active, end_tierlist, add_to_tierlist (whatever the tier
\* argument) and remove_from_tierlist return TIERLIST_NOT_ACTIVE and change
\* nothing.
C4_NotActive ==
    [][(IsCall({"end", "add", "remove"}) /\ ~Active) =>
          /\ result' = "TIERLIST_NOT_ACTIVE"
          /\ currently_active' = None
          /\ tierlists' = tierlists]_vars

\* C4 witness: an add with a tier outside the enumeration was rejected as
\* TIERLIST_NOT_ACTIVE while a stored list has members
C4_Witness ==
    /\ call.op = "add" /\ call.tier \in InvalidTiers
    /\ result = "TIERLIST_NOT_ACTIVE" /\ ~Active
    /\ \E n \in DOMAIN tierlists : MemberIds(tierlists[n]) # {}

\* C5: with a list active, remove_from_tierlist(id) returns USER_NOT_FOUND and
\* leaves the list as it is when id is in no tier; otherwise it returns
\* SUCCESS, id is in no tier afterwards and every tier keeps its other
\* members, in their order.
C5_Remove ==
    [][(IsCall({"remove"}) /\ Active) =>
          LET before == tierlists[currently_active]
              after == tierlists'[currently_active]
              id == call'.id
          IN  IF TiersOf(before, id) = {}
              THEN result' = "USER_NOT_FOUND" /\ after = before
              ELSE /\ result' = "SUCCESS"
                   /\ TiersOf(after, id) = {}
                   /\ \A t \in Tier : after[t] = Del(before[t], id)]_vars

\* C5 witness: a member was removed from a list that still holds another member
C5_Witness ==
    /\ call.op = "remove" /\ result = "SUCCESS" /\ Active
    /\ MemberIds(tierlists[currently_active]) # {}
    /\ TiersOf(tierlists[currently_active], call.id) = {}

\* C5 witness of the other case: a remove of an absent id from a list with members
C5_WitnessNotFound ==
    /\ call.op = "remove" /\ result = "USER_NOT_FOUND" /\ Active
    /\ MemberIds(tierlists[currently_active]) # {}

\* C6: with a list active, add_to_tierlist(id, data, t) with t outside the six
\* tiers returns INVALID_TIER and changes no tierlist.
C6_InvalidTier ==
    [][(IsCall({"add"}) /\ Active /\ call'.tier \in InvalidTiers) =>
          /\ result' = "INVALID_TIER"
          /\ tierlists' = tierlists]_vars

\* C7: add_to_tierlist and remove_from_tierlist change neither the active
\* name nor the set of stored names, nor any stored tierlist but the active
\* one, whatever they return.
C7_OnlyActive ==
    [][IsCall({"add", "remove"}) =>
          /\ currently_active' = currently_active
          /\ DOMAIN tierlists' = DOMAIN tierlists
          /\ \A n \in DOMAIN tierlists :
                n # currently_active => tierlists'[n] = tierlists[n]]_vars

\* C7 witness: an add or remove succeeded on the active list while another
\* stored list holds the same id
C7_Witness ==
    /\ call.op \in {"add", "remove"} /\ result = "SUCCESS" /\ Active
    /\ \E n \in DOMAIN tierlists :
          n # currently_active /\ call.id \in MemberIds(tierlists[n])

\* C8: every manager call returns one of the five TierlistError values; none
\* ends in an exception.
C8_ClosedResult == call.op # "init" => result \in TierlistError

\* ------------------------------------------------------------------ render claims

\* render has passed the barrier of its fetch tasks
Gathered == show_pc \in {"heights", "drawing", "sent"}

\* the entry at `index` (from 0) of a tier of the tierlist as render got it
InvokedAt(t, index) ==
    IF index < Len(invoked[t]) THEN invoked[t][index + 1][1] ELSE 0

\* C9: a render works on the mapping as it was when render was invoked,
\* whatever commands run meanwhile: the fetch tasks are those of the members
\* at invocation, every height computed is that of the tier's member count at
\* invocation, every member drawn is drawn at the index it had at invocation,
\* a finished render has drawn every member of the invocation whose avatar
\* was fetched, and the render does not fail with the RuntimeError of a dict
\* changed during iteration.
C9_RenderSnapshot ==
    /\ show_error # "RuntimeError"
    /\ render_of # None =>
          /\ {tasks[i].uid : i \in 1..Len(tasks)} = MemberIds(invoked)
          /\ \A k \in 1..Len(tier_heights) :
                tier_heights[k] = calc_tier_height(Len(invoked[TierOrder[k]]))
          /\ \A p \in 1..Len(placed) :
                InvokedAt(placed[p].tier, placed[p].index) = placed[p].uid
          /\ show_pc = "sent" =>
                {placed[p].uid : p \in 1..Len(placed)}
                   = MemberIds(invoked) \cap avatar_images

\* C10: whatever each fetch task of a render met (status 200, another
\* status, an exception), no task's failure reaches render, every member of
\* the tierlist has exactly one task, and once the tasks are gathered the
\* asset map holds exactly the ids whose fetch returned status 200.
C10_FetchIsolation ==
    /\ show_error # "ClientError"
    /\ \A i \in 1..Len(tasks) : tasks[i].data # "raised"
    /\ render_of # None =>
          /\ \A i, j \in 1..Len(tasks) : tasks[i].uid = tasks[j].uid => i = j
          /\ {tasks[i].uid : i \in 1..Len(tasks)} = MemberIds(invoked)
    /\ Gathered =>
          avatar_images =
             {tasks[i].uid : i \in {j \in 1..Len(tasks) : tasks[j].outcome = "200"}}

\* C10 witness: the tasks are gathered, one of them met an exception,
\* another status 200, and only the latter's id is in the asset map
C10_Witness ==
    /\ Gathered
    /\ \E i, j \in 1..Len(tasks) :
          /\ tasks[i].outcome = "raise"
          /\ tasks[j].outcome = "200"
          /\ avatar_images = {tasks[j].uid}

\* _draw has started: it has computed a height, opened an iterator, drawn a
\* member, failed while drawing, or finished
DrawStarted ==
    \/ tier_heights # <<>>
    \/ it.live
    \/ placed # <<>>
    \/ show_pc \in {"drawing", "sent"}
    \/ show_error = "AttributeError"

\* the ids whose fetch task has returned image bytes
Fetched == {tasks[i].uid : i \in {j \in 1..Len(tasks) : Truthy(tasks[j].data)}}

\* C11: within one render, under every order in which the fetch tasks run,
\* _draw never starts while a fetch task is pending: from the moment render
\* has passed the gather no task is pending, and the asset map _draw works
\* with is complete, holding every id whose task returned image bytes.
C11_GatherBarrier ==
    (Gathered \/ DrawStarted) =>
        /\ \A i \in 1..Len(tasks) : tasks[i].data # "pending"
        /\ avatar_images = Fetched

\* C11 witness: _draw has computed a height in a render of two members whose
\* fetch tasks have both returned
C11_Witness ==
    /\ tier_heights # <<>>
    /\ Len(tasks) = 2
    /\ \A i \in 1..Len(tasks) : tasks[i].data # "pending"

\* the members of the tierlist as render got it: tier, index in the tier's
\* iteration order (from 0), id
InvokedMembers ==
    UNION {{[tier |-> t, index |-> i - 1, uid |-> invoked[t][i][1]] :
                i \in 1..Len(invoked[t])} : t \in Tier}

\* C12: in a finished render, every member whose fetch failed (its id is not
\* in the asset map) has its name label drawn at its grid cell with no avatar,
\* and every other member has its label drawn.
C12_LabelWithoutAvatar ==
    show_pc = "sent" =>
        \A mb \in InvokedMembers :
            \E p \in 1..Len(placed) :
                /\ placed[p].uid = mb.uid
                /\ placed[p].tier = mb.tier
                /\ placed[p].index = mb.index
                /\ placed[p].label
                /\ mb.uid \notin avatar_images => ~placed[p].avatar

\* C13: no render ends in an error, whatever the tierlist holds, whatever the
\* fetch and decode outcomes, and whichever fonts the constructor loaded.
C13_RenderReturns ==
    render_of # None => (show_pc # "error" /\ show_error = None)

\* the number of rows n cells take in a grid k wide: the least r with r*k >= n
RowsFor(n, k) == CHOOSE r \in 0..n : r * k >= n /\ (r - 1) * k < n

\* C14: with the constructor's geometry (label width 150, seven avatars per
\* row) the height of a tier of no member is min_tier_height + 2*padding, the
\* height of a tier of N > 0 members is ceil(N/k)*(A+T+P) + P, the height
\* never decreases as N grows, it is the same for 1..k members and it differs
\* between k and k+1 members; every height _draw computes is that of the
\* tier's member count.
C14_TierHeight ==
    LET k == IF (total_width - label_width) \div (avatar_size + padding) > 1
             THEN (total_width - label_width) \div (avatar_size + padding)
             ELSE 1
        height_for(N) ==
            IF N = 0 THEN min_tier_height + (2 * padding)
            ELSE (RowsFor(N, k) * (avatar_size + text_height + padding)) + padding
    IN
    /\ label_width = 150
    /\ avatars_per_row = k
    /\ \A N \in 0..(MaxMembers + 1) : calc_tier_height(N) = height_for(N)
    /\ \A N \in 0..MaxMembers : calc_tier_height(N) <= calc_tier_height(N + 1)
    /\ \A N \in 1..k : calc_tier_height(N) = calc_tier_height(1)
    /\ calc_tier_height(k) # calc_tier_height(k + 1)
    /\ \A j \in 1..Len(tier_heights) :
          tier_heights[j] = height_for(Len(Drawn(j)))

\* C14 witness: _draw has computed the height of a tier of k+1 members, which
\* take two rows, and that of an empty tier
C14_Witness ==
    \E i, j \in 1..Len(tier_heights) :
        /\ Len(Drawn(i)) = avatars_per_row + 1
        /\ tier_heights[i] = (2 * unit_height) + padding
        /\ Len(Drawn(j)) = 0
        /\ tier_heights[j] = min_tier_height + (2 * padding)

\* the position of tier t in the order the tiers are drawn
TierIndex(t) == CHOOSE j \in 1..Len(TierOrder) : TierOrder[j] = t

\* where the band of the tier at position j starts: the heights of the tiers
\* above it
BandOffset(j) == Sum(SubSeq(tier_heights, 1, j - 1))

\* C17: a member that is drawn is the one at its insertion index i in its
\* tier, every member of the tier counted whether its avatar was fetched or
\* not; it is placed at column i mod k and row i div k, at the pixel position
\* (label_width + P + col*(A+P), band offset + P + row*(A+T+P)); no two
\* members of a tier are placed at the same position.
C17_GridPlacement ==
    /\ \A p \in 1..Len(placed) :
          LET e == placed[p]
              j == TierIndex(e.tier)
              col == e.index % avatars_per_row
              row == e.index \div avatars_per_row
          IN
          /\ e.index < Len(Drawn(j))
          /\ Drawn(j)[e.index + 1][1] = e.uid
          /\ e.x = (label_width + padding) + (col * (avatar_size + padding))
          /\ e.y = (BandOffset(j) + padding)
                     + (row * (avatar_size + text_height + padding))
    /\ \A p, q \in 1..Len(placed) :
          (p # q /\ placed[p].tier = placed[q].tier) =>
              <<placed[p].x, placed[p].y>> # <<placed[q].x, placed[q].y>>

\* C17 witness: two members of a tier are drawn, one row apart in the same
\* column, the members between them not having been fetched
C17_Witness ==
    \E p, q \in 1..Len(placed) :
        /\ placed[p].tier = placed[q].tier
        /\ placed[q].index = placed[p].index + avatars_per_row
        /\ placed[p].x = placed[q].x
        /\ placed[q].y = placed[p].y + unit_height
        /\ placed[p].index > 0

\* the cell at (x, y), the avatar square with the name row under it, lies in
\* the band that starts at `offset` and is `height` high, right of the label
\* box and left of the canvas edge
InBand(x, y, offset, height) ==
    /\ offset <= y
    /\ (y + avatar_size) + text_height <= offset + height
    /\ label_width <= x
    /\ x + avatar_size <= total_width

\* C20: for a tier of N >= 1 members and every index i < N, the grid cell for
\* i lies inside the tier's own band, whose height is that of N members, and
\* inside the content area horizontally; so does every member drawn.
C20_CellInsideBand ==
    /\ show_pc = "drawing" =>
          \A i \in 0..(Len(Drawn(ti)) - 1) :
              InBand(Cell(i, current_y).x, Cell(i, current_y).y,
                     current_y, calc_tier_height(Len(Drawn(ti))))
    /\ \A p \in 1..Len(placed) :
          InBand(placed[p].x, placed[p].y,
                 BandOffset(TierIndex(placed[p].tier)),
                 tier_heights[TierIndex(placed[p].tier)])

\* C20 witness: the member drawn is the last of the second row of the last
\* tier, whose band starts below five empty bands
C20_Witness ==
    \E p \in 1..Len(placed) :
        /\ placed[p].index = (2 * avatars_per_row) - 1
        /\ BandOffset(TierIndex(placed[p].tier)) = 5 * calc_tier_height(0)
        /\ Len(Drawn(TierIndex(placed[p].tier))) = 2 * avatars_per_row

\* the heights of the six bands of a tierlist, in the order S, A, B, C, D, F
BandHeights(tiers) ==
    [j \in 1..Len(TierOrder) |-> calc_tier_height(Len(tiers[TierOrder[j]]))]

\* C15: once _draw has created the canvas, the canvas height is the sum over
\* the six tiers of the height of the tier's member count; the bands are
\* drawn in the order S, A, B, C, D, F, each starting at the offset where the
\* one before ended, and the offset after the last band is the canvas height.
\* A list with two members in S and nothing else has the height of a tier of
\* two plus five times that of an empty tier.
C15_CanvasHeight ==
    /\ TierOrder = <<"S", "A", "B", "C", "D", "F">>
    /\ show_pc \in {"drawing", "sent"} =>
          /\ tier_heights = BandHeights(invoked)
          /\ total_canvas_height = Sum(BandHeights(tierlists[render_of]))
          /\ Keys(invoked["S"]) = {1, 2} /\ MemberIds(invoked) = {1, 2} =>
                total_canvas_height = calc_tier_height(2) + (5 * calc_tier_height(0))
    /\ show_pc = "drawing" => current_y = BandOffset(ti)
    /\ show_pc = "sent" => current_y = total_canvas_height
    /\ \A p, q \in 1..Len(placed) :
          p < q => TierIndex(placed[p].tier) <= TierIndex(placed[q].tier)

\* C15 witness: the render of a list holding 1 and 2 in S and nothing else
\* has drawn its last band
C15_Witness ==
    /\ show_pc = "sent"
    /\ Keys(invoked["S"]) = {1, 2}
    /\ current_y = calc_tier_height(2) + (5 * calc_tier_height(0))

\* the call just made is add_member(id, data, T) on the active tierlist for
\* an id that was in T with that data
Readd ==
    /\ IsCall({"add"})
    /\ Active
    /\ call'.found = call'.tier
    /\ Lookup(tierlists[currently_active][call'.tier], call'.id) = call'.data

\* the add_member just made, made once more, changes nothing
TwiceIsOnce ==
    LET once == tierlists'[currently_active] IN
    add_member(once, call'.id, call'.data, call'.tier, python).tiers = once

\* C16 as stated: re-adding an id to its tier with the same data returns true
\* and leaves the tierlist as it was, the order in which the tier's members
\* are iterated included; and add_member applied twice gives what it gives
\* applied once.
C16_ReaddNoOp ==
    [][/\ Readd => (result' = "SUCCESS" /\ tierlists' = tierlists)
       /\ (IsCall({"add"}) /\ result' = "SUCCESS") => TwiceIsOnce]_vars

\* C16 amended: re-adding an id to its tier T with the same data returns true
\* and leaves every tier with the members and data it had, the other tiers
\* and the other members of T in the order they had, but id is now the last
\* member of T; and add_member applied twice gives what it gives applied once.
C16_ReaddMovesLast ==
    [][/\ Readd =>
             LET T == call'.tier
                 before == tierlists[currently_active]
                 after == tierlists'[currently_active]
                 Others(d) == SelectSeq(d, LAMBDA e : e[1] # call'.id)
             IN
             /\ result' = "SUCCESS"
             /\ \A t \in Tier \ {T} : after[t] = before[t]
             /\ {after[T][i] : i \in 1..Len(after[T])}
                   = {before[T][i] : i \in 1..Len(before[T])}
             /\ Len(after[T]) = Len(before[T])
             /\ Others(after[T]) = Others(before[T])
             /\ after[T][Len(after[T])] = <<call'.id, call'.data>>
       /\ (IsCall({"add"}) /\ result' = "SUCCESS") => TwiceIsOnce]_vars

\* C16 witness: id 1 has just been re-added to its tier with the data it
\* had, and is now behind id 2 in that tier
C16_Witness ==
    /\ call.op = "add"
    /\ result = "SUCCESS"
    /\ call.id = 1
    /\ call.found = call.tier
    /\ tierlists[currently_active][call.tier] = <<<<2, "n">>, <<1, call.data>>>>

\* C18: in every state of the manager, an active name is a key of tierlists
\* and every stored tierlist has exactly the six tier keys S, A, B, C, D, F,
\* so the lookup tierlists[currently_active] of add_to_tierlist and
\* remove_from_tierlist finds a tierlist; and no call removes a stored name.
C18_ActiveIsStored ==
    /\ [](/\ Active => currently_active \in DOMAIN tierlists
          /\ \A n \in DOMAIN tierlists :
                DOMAIN tierlists[n] = {"S", "A", "B", "C", "D", "F"})
    /\ [][DOMAIN tierlists \subseteq DOMAIN tierlists']_vars

\* C18 witness: two lists are stored, each holding a member; the first was
\* ended, the second is active and a member has just been added to it
C18_Witness ==
    /\ DOMAIN tierlists = Names
    /\ Active
    /\ call.op = "add"
    /\ result = "SUCCESS"
    /\ MemberIds(tierlists[currently_active]) # {}
    /\ \E n \in DOMAIN tierlists \ {currently_active} :
          MemberIds(tierlists[n]) # {}

\* C19: whatever command handlers run at the await points of show, show
\* replies that no tierlist is active exactly when the manager has none
\* active (a list begun with the empty name is active), otherwise it renders
\* the list that is active when it looks it up, and the lookup never fails.
C19_ShowFindsActive ==
    [][/\ (show_pc = "idle" /\ show_pc' # "idle") =>
             (show_pc' = "no_active" <=> ~Active)
       /\ (show_pc = "deferred" /\ show_pc' # "deferred") =>
             (show_pc' = "fetching" /\ render_of' = currently_active)
       /\ show_error' # "KeyError"]_vars

====
